---- MODULE Spec2Model ----
(***************************************************************************)
(* job-scrape: scraping career pages, filtering postings by search terms,  *)
(* diffing them against the stored set of seen job ids, and notifying on   *)
(* new postings and new scrape errors.                                     *)
(*                                                                         *)
(* Strings are sequences of one-character strings, so that lower() and the *)
(* substring test `in` are computed, not assumed.  Python's None and the   *)
(* empty string/list are both represented by the empty sequence: the code  *)
(* only ever tests these optional values for truthiness.                   *)
(***************************************************************************)
EXTENDS Naturals, Sequences, FiniteSets

VARIABLES
    title_call,            \* one call of title_is_relevant / get_company_relevant_jobs
    scrape,                \* one call of get_new_relevant_jobs on arbitrary inputs
    config,                \* config.py of the deployment (companies, search_terms)
    entry,                 \* entry point of the deployment: "cli" or "lambda"
    existing_jobs_object,  \* S3 object event["aws_config"]["existing_jobs_json"]
    errors_object,         \* S3 object event["aws_config"]["errors_json"]
    existing_jobs_file,    \* file args.existing_jobs_json
    puts,                  \* objects put / files written by the latest run
    sns,                   \* messages published by the latest run
    printed,               \* what the latest command line run printed
    last,                  \* what the latest run was given and what it scraped
    seen,                  \* history: (company name, id) pairs scraped as relevant
                           \* in the runs before the latest one
    persisted              \* history: every run so far had both dont_* flags false

vars == <<title_call, scrape, config, entry, existing_jobs_object, errors_object,
          existing_jobs_file, puts, sns, printed, last, seen, persisted>>

(***************************************************************************)
(* Bounds of the model.                                                    *)
(***************************************************************************)
MaxTitleLen == 2   \* longest title in a title_is_relevant call
MaxTermLen == 1    \* longest search term in a title_is_relevant call
MaxTerms == 1      \* most search terms in a list in a title_is_relevant call
MaxJobs == 2       \* most postings the scrapers extract in one run
MaxId == 2         \* job ids are 1..MaxId (ordered as the id strings are)
MaxRunJobs == 1    \* most postings on the pages of one run in a sequence of runs

None == <<>>

Truthy(x) == x # None

(***************************************************************************)
(* str.lower() and the substring test.                                     *)
(***************************************************************************)
\* str.lower() on one character: the cased letters that occur in the model's
\* strings; every other character is its own lower case.
LowerMap ==
    [A |-> "a", B |-> "b", C |-> "c", D |-> "d", E |-> "e", F |-> "f", G |-> "g",
     H |-> "h", I |-> "i", J |-> "j", K |-> "k", L |-> "l", M |-> "m", N |-> "n",
     O |-> "o", P |-> "p", Q |-> "q", R |-> "r", S |-> "s", T |-> "t", U |-> "u",
     V |-> "v", W |-> "w", X |-> "x", Y |-> "y", Z |-> "z"]

LowerChar(c) == IF c \in DOMAIN LowerMap THEN LowerMap[c] ELSE c

Lower(s) == [k \in 1..Len(s) |-> LowerChar(s[k])]

\* Python's `sub in s` on strings.
Contains(sub, s) ==
    \E k \in 0..(Len(s) - Len(sub)) :
        \A j \in 1..Len(sub) : s[k + j] = sub[j]

(***************************************************************************)
(* models.py                                                               *)
(***************************************************************************)
SPECIFIC_NO_JOBS_PHRASE_FOUND == 1
GENERIC_NO_JOBS_PHRASE_FOUND == 2
NO_JOBS_PHRASE_NOT_FOUND_BUT_NO_JOBS == 3
SOME_JOB_FOUND == 4

\* Company(**company) with the dataclass defaults for the fields not given.
\* Only the fields the scraping logic reads are kept.
Company(name, active, jobs_page, jobs_page_class, no_jobs_phrase, relevant_search_terms) ==
    [name |-> name, active |-> active, jobs_page |-> jobs_page,
     jobs_page_class |-> jobs_page_class, no_jobs_phrase |-> no_jobs_phrase,
     relevant_search_terms |-> relevant_search_terms]

JobPosting(title, id) == [title |-> title, id |-> id]

(***************************************************************************)
(* Exceptions: a call returns a record whose field raised is NoException   *)
(* or the exception that left it.                                          *)
(***************************************************************************)
NoException == [type |-> "None", name |-> <<>>, text |-> ""]

RetrievingTextError(name) ==
    [type |-> "Exception", name |-> name, text |-> ": Error retrieving text"]

NotImplementedError == [type |-> "Exception", name |-> <<>>, text |-> "Scrape not implemented"]

\* Whatever a scraper's get_jobs raises on a page it cannot read.
ScraperFailure == [type |-> "ScraperError", name |-> <<>>, text |-> "get_jobs failed"]

AssertionFailure == [type |-> "AssertionError", name |-> <<>>, text |-> ""]

(***************************************************************************)
(* jobscrape.py: has_jobs, title_is_relevant, get_company_relevant_jobs    *)
(***************************************************************************)
generic_no_jobs_phrases ==
    << <<"N", "o", " ", "a", "v", "a", "i", "l", "a", "b", "l", "e", " ", "p", "o", "s", "i", "t", "i", "o", "n", "s">>,
       <<"N", "o", " ", "p", "o", "s", "i", "t", "i", "o", "n", "s">>,
       <<"S", "o", "r", "r", "y">>,
       <<"N", "o", " ", "j", "o", "b">>,
       <<"N", "o", " ", "c", "u", "r", "r", "e", "n", "t">>,
       <<"N", "o", " ", "o", "p", "e", "n">>,
       <<"N", "o", "n", "e", " ", "a", "v", "a", "i", "l", "a", "b", "l", "e">>,
       <<"D", "o", "n", "'", "t", " ", "h", "a", "v", "e">>,
       <<"d", "o", "n", "'", "t", " ", "c", "u", "r", "r", "e", "n", "t", "l", "y">>,
       <<"N", "o", " ", "o", "p", "e", "n", "i", "n", "g", "s">> >>

\* text is driver.find_element(By.TAG_NAME, 'body').text
has_jobs(text, company) ==
    LET all_text_lower == Lower(text) IN
    IF all_text_lower = <<>>
    THEN [raised |-> RetrievingTextError(company.name), has |-> FALSE, status |-> 0]
    ELSE IF Truthy(company.no_jobs_phrase)
    THEN IF Contains(Lower(company.no_jobs_phrase), all_text_lower)
         THEN [raised |-> NoException, has |-> FALSE, status |-> SPECIFIC_NO_JOBS_PHRASE_FOUND]
         ELSE [raised |-> NoException, has |-> TRUE, status |-> NO_JOBS_PHRASE_NOT_FOUND_BUT_NO_JOBS]
    ELSE LET no_phrase == \A k \in 1..Len(generic_no_jobs_phrases) :
                              ~Contains(Lower(generic_no_jobs_phrases[k]), all_text_lower)
         IN  [raised |-> NoException, has |-> no_phrase,
              status |-> IF no_phrase THEN NO_JOBS_PHRASE_NOT_FOUND_BUT_NO_JOBS
                                      ELSE GENERIC_NO_JOBS_PHRASE_FOUND]

AnyTermInTitle(terms, title) ==
    \E k \in 1..Len(terms) : Contains(Lower(terms[k]), Lower(title))

\* Faulty variant: the company's own terms are added to the configured ones.
title_is_relevant_added(company, title, search_terms) ==
    AnyTermInTitle(company.relevant_search_terms \o search_terms, title)

title_is_relevant(company, title, search_terms) ==
    IF Truthy(company.relevant_search_terms)
    THEN AnyTermInTitle(company.relevant_search_terms, title)
    ELSE AnyTermInTitle(search_terms, title)

\* [job for job in jobs if title_is_relevant(company, job.title, search_terms)]
RelevantOf(jobs, company, search_terms) ==
    LET Test(job) == title_is_relevant(company, job.title, search_terms)
    IN  SelectSeq(jobs, Test)

\* Faulty variant: the status is not set to SOME_JOB_FOUND.
StatusKept(jobs, jobs_page_status) == jobs_page_status

\* jobs_page_status after get_jobs returned jobs
StatusAfterGetJobs(jobs, jobs_page_status) ==
    IF Len(jobs) > 0 THEN SOME_JOB_FOUND ELSE jobs_page_status

\* page is what the driver shows at company.jobs_page: its body text, what the
\* company's scraper class extracts from it (jobs), or that get_jobs raises.
get_company_relevant_jobs(page, company, search_terms) ==
    LET hj == has_jobs(page.text, company) IN
    IF hj.raised # NoException
    THEN [raised |-> hj.raised, relevant_jobs |-> <<>>, status |-> 0]
    ELSE IF hj.has
    THEN IF Truthy(company.jobs_page_class)
         THEN IF page.raises
              THEN [raised |-> ScraperFailure, relevant_jobs |-> <<>>, status |-> 0]
              ELSE [raised |-> NoException,
                    relevant_jobs |-> RelevantOf(page.jobs, company, search_terms),
                    status |-> StatusAfterGetJobs(page.jobs, hj.status)]
         ELSE [raised |-> NotImplementedError, relevant_jobs |-> <<>>, status |-> 0]
    ELSE [raised |-> NoException, relevant_jobs |-> <<>>, status |-> hj.status]

(***************************************************************************)
(* jobscrape.py: get_relevant_jobs                                         *)
(***************************************************************************)
\* `limit_company and limit_company.lower() not in company.name.lower()` is false
MatchesLimit(limit_company, company) ==
    ~(Truthy(limit_company) /\ ~Contains(Lower(limit_company), Lower(company.name)))

\* search_terms = config.search_terms, with additional_search_term appended if given
SearchTerms(cfg, additional_search_term) ==
    IF Truthy(additional_search_term)
    THEN Append(cfg.search_terms, additional_search_term)
    ELSE cfg.search_terms

NoResults ==
    [relevant_jobs |-> <<>>, skipped_companies |-> <<>>, verify_no_jobs |-> <<>>,
     errors |-> <<>>, raised |-> NoException]

\* The body of `for company in companies`, on the lists collected so far.
\* The assert is outside the try: its AssertionError leaves get_relevant_jobs.
CheckCompany(acc, company, page, limit_company, search_terms) ==
    IF ~MatchesLimit(limit_company, company)
    THEN acc
    ELSE IF company.active
    THEN IF ~Truthy(company.jobs_page)
         THEN [acc EXCEPT !.raised = AssertionFailure]
         ELSE LET r == get_company_relevant_jobs(page, company, search_terms) IN
              IF r.raised # NoException
              THEN [acc EXCEPT !.errors = Append(@, <<company.name, r.raised>>)]
              ELSE IF Len(r.relevant_jobs) > 0
              THEN [acc EXCEPT !.relevant_jobs =
                       @ \o [k \in 1..Len(r.relevant_jobs) |-> <<company, r.relevant_jobs[k]>>]]
              ELSE IF r.status \in {GENERIC_NO_JOBS_PHRASE_FOUND,
                                    NO_JOBS_PHRASE_NOT_FOUND_BUT_NO_JOBS}
              THEN [acc EXCEPT !.verify_no_jobs = Append(@, company)]
              ELSE acc
    ELSE [acc EXCEPT !.skipped_companies = Append(@, company.name)]

\* The page the driver shows for the company at position k of config.companies
\* (only the companies the run fetches have one).
PageOf(web, k) == IF k \in DOMAIN web THEN web[k] ELSE [text |-> <<>>, jobs |-> <<>>, raises |-> FALSE]

RECURSIVE CheckCompanies(_, _, _, _, _, _)
CheckCompanies(acc, companies, k, web, limit_company, search_terms) ==
    IF k > Len(companies) \/ acc.raised # NoException
    THEN acc
    ELSE CheckCompanies(
             CheckCompany(acc, companies[k], PageOf(web, k), limit_company, search_terms),
             companies, k + 1, web, limit_company, search_terms)

\* An exception that leaves the loop leaves the function: nothing is returned.
get_relevant_jobs(cfg, web, limit_company, additional_search_term) ==
    LET r == CheckCompanies(NoResults, cfg.companies, 1, web, limit_company,
                            SearchTerms(cfg, additional_search_term))
    IN  IF r.raised # NoException THEN [NoResults EXCEPT !.raised = r.raised] ELSE r

(***************************************************************************)
(* jobscrape.py: get_new_relevant_jobs                                     *)
(***************************************************************************)
ToSet(list) == {list[k] : k \in 1..Len(list)}

\* sorted(list(value)) of a set of ids
RECURSIVE Sorted(_)
Sorted(S) ==
    IF S = {}
    THEN <<>>
    ELSE LET least == CHOOSE x \in S : \A y \in S : x <= y
         IN  <<least>> \o Sorted(S \ {least})

\* defaultdict(set, {key: set(value) for key, value in existing_relevant_jobs.items()})
AsSets(existing_relevant_jobs) ==
    [key \in DOMAIN existing_relevant_jobs |-> ToSet(existing_relevant_jobs[key])]

\* Faulty variant: the company's seen ids are started afresh.
TouchFresh(existing, name) ==
    [key \in DOMAIN existing \cup {name} |->
        IF key \in DOMAIN existing /\ key # name THEN existing[key] ELSE {}]

\* existing_relevant_jobs[name] on the defaultdict: a missing key is created empty
Touch(existing, name) ==
    [key \in DOMAIN existing \cup {name} |->
        IF key \in DOMAIN existing THEN existing[key] ELSE {}]

\* new_relevant_jobs is a dict in insertion order: a sequence of entries
\* [name, company, jobs], one per company name.
AddNewJob(new_relevant_jobs, company, job) ==
    IF \E k \in 1..Len(new_relevant_jobs) : new_relevant_jobs[k].name = company.name
    THEN [k \in 1..Len(new_relevant_jobs) |->
             IF new_relevant_jobs[k].name = company.name
             THEN [new_relevant_jobs[k] EXCEPT !.jobs = Append(@, job)]
             ELSE new_relevant_jobs[k]]
    ELSE Append(new_relevant_jobs, [name |-> company.name, company |-> company, jobs |-> <<job>>])

\* Faulty variant: the id of a new job is not added to the seen ids.
GroupJobNoAdd(st, company, job) ==
    LET existing == Touch(st.existing, company.name) IN
    IF job.id \notin existing[company.name]
    THEN [existing |-> existing, new |-> AddNewJob(st.new, company, job)]
    ELSE [existing |-> existing, new |-> st.new]

\* Faulty variant: an id seen under any company name counts as seen.
GroupJobAnyName(st, company, job) ==
    LET existing == Touch(st.existing, company.name) IN
    IF job.id \notin UNION {existing[key] : key \in DOMAIN existing}
    THEN [existing |-> [existing EXCEPT ![company.name] = @ \cup {job.id}],
          new |-> AddNewJob(st.new, company, job)]
    ELSE [existing |-> [existing EXCEPT ![company.name] = @ \cup {job.id}], new |-> st.new]

\* The body of `for company, job in relevant_jobs`.
GroupJob(st, company, job) ==
    LET existing == Touch(st.existing, company.name) IN
    IF job.id \notin existing[company.name]
    THEN [existing |-> [existing EXCEPT ![company.name] = @ \cup {job.id}],
          new |-> AddNewJob(st.new, company, job)]
    ELSE [existing |-> existing, new |-> st.new]

RECURSIVE GroupJobs(_, _, _)
GroupJobs(st, relevant_jobs, k) ==
    IF k > Len(relevant_jobs)
    THEN st
    ELSE GroupJobs(GroupJob(st, relevant_jobs[k][1], relevant_jobs[k][2]), relevant_jobs, k + 1)

\* got is what the call get_relevant_jobs(driver, limit_company,
\* additional_search_term) returned (or the exception that left it).
get_new_relevant_jobs(existing_relevant_jobs, got) ==
    IF got.raised # NoException
    THEN [raised |-> got.raised, new_relevant_jobs |-> <<>>,
          existing_relevant_jobs |-> existing_relevant_jobs,
          verify_no_jobs |-> <<>>, errors |-> <<>>]
    ELSE LET st == GroupJobs([existing |-> AsSets(existing_relevant_jobs), new |-> <<>>],
                             got.relevant_jobs, 1)
         IN  [raised |-> NoException,
              new_relevant_jobs |-> st.new,
              existing_relevant_jobs |-> [key \in DOMAIN st.existing |-> Sorted(st.existing[key])],
              verify_no_jobs |-> got.verify_no_jobs,
              errors |-> got.errors]

(***************************************************************************)
(* Inputs: companies, pages and stored files the runs are tried on.        *)
(***************************************************************************)
Url == <<"u", "r", "l">>
Scraper == <<"S">>

Acme == Company(<<"A", "c", "m", "e">>, TRUE, Url, Scraper, <<"N", "o", " ", "r", "o", "l", "e", "s">>, None)
Bolt == Company(<<"B", "o", "l", "t">>, TRUE, Url, Scraper, None, << <<"c", "h", "e", "f">> >>)
Core == Company(<<"C", "o", "r", "e">>, FALSE, None, None, None, None)
Nocl == Company(<<"N", "o", "c", "l">>, TRUE, Url, None, None, None)
Dud == Company(<<"D", "u", "d">>, TRUE, None, Scraper, None, None)
Gone == <<"G", "o", "n", "e">>

Config1 == [companies |-> <<Acme, Core, Bolt>>, search_terms |-> << <<"d", "e", "v">> >>]
Config2 == [companies |-> <<Nocl, Dud, Bolt>>, search_terms |-> << <<"d", "e", "v">> >>]
Configs == {Config1, Config2}

Limits == {None, <<"C">>}
AdditionalTerms == {None, <<"e", "f">>}

TextSorry == <<"S", "O", "R", "R", "Y">>
TextNoRoles == <<"n", "o", " ", "r", "o", "l", "e", "s">>
TextJobs == <<"J", "o", "b", "s">>
Texts == {<<>>, TextSorry, TextNoRoles, TextJobs}

Titles == {<<"D", "e", "v">>, <<"C", "h", "e", "f">>}
Ids == 1..MaxId
Jobs == {JobPosting(t, id) : t \in Titles, id \in Ids}
JobLists == UNION {[1..m -> Jobs] : m \in 0..MaxJobs}

Pages ==
    {[text |-> <<>>, jobs |-> <<>>, raises |-> FALSE]}
    \cup {[text |-> t, jobs |-> l, raises |-> FALSE] : t \in Texts \ {<<>>}, l \in JobLists}
    \cup {[text |-> t, jobs |-> <<>>, raises |-> TRUE] : t \in Texts \ {<<>>}}

\* The positions of config.companies whose page a run with this limit fetches.
Fetched(cfg, limit_company) ==
    LET Checked(k) == MatchesLimit(limit_company, cfg.companies[k]) /\ cfg.companies[k].active
    IN  {k \in 1..Len(cfg.companies) :
            /\ Checked(k)
            /\ \A j \in 1..k : Checked(j) => Truthy(cfg.companies[j].jobs_page)}

RECURSIVE TotalJobs(_, _)
TotalJobs(web, ks) ==
    IF ks = {}
    THEN 0
    ELSE LET k == CHOOSE x \in ks : TRUE
         IN  Len(web[k].jobs) + TotalJobs(web, ks \ {k})

Webs(cfg, limit_company) ==
    {web \in [Fetched(cfg, limit_company) -> Pages] : TotalJobs(web, DOMAIN web) <= MaxJobs}

\* Stored existing-jobs files: name -> list of ids, as json.load returns them
\* (a hand-kept file need not be sorted, nor free of duplicates).
ExistingFiles ==
    LET A == Acme.name
        B == Bolt.name
    IN  { [key \in {} |-> <<>>],
          [key \in {A} |-> <<1>>],
          [key \in {A, Gone} |-> IF key = A THEN <<MaxId, 1, 1>> ELSE <<1>>],
          [key \in {A, B} |-> IF key = A THEN <<>> ELSE <<1>>] }

(***************************************************************************)
(* One call of title_is_relevant, and of the filter that uses it.          *)
(***************************************************************************)
Alphabet == {"a", "A", "b"}
Strings(n) == UNION {[1..m -> Alphabet] : m \in 0..n}
TermLists == UNION {[1..m -> Strings(MaxTermLen)] : m \in 0..MaxTerms}
\* config.search_terms of the call: no term or one
GlobalTermLists == UNION {[1..m -> Strings(MaxTermLen)] : m \in 0..1}

InitTitle ==
    \E own \in TermLists, terms \in GlobalTermLists, title \in Strings(MaxTitleLen) :
        title_call = [company |-> Company(<<"T">>, TRUE, Url, Scraper, None, own),
                      search_terms |-> terms, title |-> title,
                      called |-> FALSE, result |-> FALSE, relevant_jobs |-> <<>>]

CallTitleIsRelevant ==
    /\ ~title_call.called
    /\ title_call' =
         [title_call EXCEPT
            !.called = TRUE,
            !.result = title_is_relevant(title_call.company, title_call.title,
                                         title_call.search_terms),
            !.relevant_jobs =
                get_company_relevant_jobs(
                    [text |-> TextJobs, jobs |-> <<JobPosting(title_call.title, 1)>>,
                     raises |-> FALSE],
                    title_call.company, title_call.search_terms).relevant_jobs]

(***************************************************************************)
(* One call of get_new_relevant_jobs.                                      *)
(***************************************************************************)
NotCalled == [raised |-> NoException, new_relevant_jobs |-> <<>>,
              existing_relevant_jobs |-> [key \in {} |-> <<>>],
              verify_no_jobs |-> <<>>, errors |-> <<>>]

InitScrape ==
    \E cfg \in Configs, limit_company \in Limits, term \in AdditionalTerms,
       existing \in ExistingFiles :
        \E web \in Webs(cfg, limit_company) :
            scrape = [config |-> cfg, limit_company |-> limit_company,
                      additional_search_term |-> term,
                      existing_relevant_jobs |-> existing, web |-> web,
                      called |-> FALSE, got |-> NoResults, out |-> NotCalled]

CallGetNewRelevantJobs ==
    /\ ~scrape.called
    /\ scrape' =
         [scrape EXCEPT
            !.called = TRUE,
            !.got = get_relevant_jobs(scrape.config, scrape.web, scrape.limit_company,
                                      scrape.additional_search_term),
            !.out = get_new_relevant_jobs(
                        scrape.existing_relevant_jobs,
                        get_relevant_jobs(scrape.config, scrape.web, scrape.limit_company,
                                          scrape.additional_search_term))]

(***************************************************************************)
(* Properties of one call of title_is_relevant (SpecTitle).                *)
(***************************************************************************)
\* Equality of two characters of Alphabet up to case, stated without lower().
SameLetter(x, y) == x = y \/ {x, y} = {"a", "A"}

TermOccursIn(term, title) ==
    \E k \in 0..(Len(title) - Len(term)) :
        \A j \in 1..Len(term) : SameLetter(title[k + j], term[j])

\* The applicable terms: the company's own if it has any, else the configured ones.
ApplicableTerms(call) ==
    IF Len(call.company.relevant_search_terms) > 0
    THEN call.company.relevant_search_terms
    ELSE call.search_terms

\* C5: title_is_relevant is true exactly when the title contains, ignoring
\* case, one of the applicable terms (the company's own terms if it has any,
\* the configured terms otherwise), and exactly the jobs whose title passes
\* are kept by get_company_relevant_jobs.
C5_TitleRelevance ==
    title_call.called =>
        LET terms == ApplicableTerms(title_call)
            expected == \E k \in 1..Len(terms) : TermOccursIn(terms[k], title_call.title)
        IN  /\ title_call.result = expected
            /\ title_call.relevant_jobs =
                 IF expected THEN <<JobPosting(title_call.title, 1)>> ELSE <<>>

\* A title that a configured term occurs in, in another case, but none of the
\* company's own terms: not relevant.
C5_Witness ==
    /\ title_call.called
    /\ Len(title_call.company.relevant_search_terms) > 0
    /\ \E k \in 1..Len(title_call.search_terms) :
           /\ Len(title_call.search_terms[k]) > 0
           /\ TermOccursIn(title_call.search_terms[k], title_call.title)
           /\ ~Contains(title_call.search_terms[k], title_call.title)
    /\ ~title_call.result
    /\ title_call.relevant_jobs = <<>>

(***************************************************************************)
(* Properties of one call of get_new_relevant_jobs (SpecScrape).           *)
(***************************************************************************)
Returned == scrape.called /\ scrape.out.raised = NoException

NamesOf(relevant_jobs) == {relevant_jobs[k][1].name : k \in 1..Len(relevant_jobs)}

\* The ids of the relevant jobs scraped for the companies of this name.
ScrapedIds(relevant_jobs, name) ==
    {relevant_jobs[k][2].id : k \in {j \in 1..Len(relevant_jobs) : relevant_jobs[j][1].name = name}}

\* The ids previously seen for this name.
SeenIds(existing, name) ==
    IF name \in DOMAIN existing THEN ToSet(existing[name]) ELSE {}

\* C1: the jobs reported as new are exactly the scraped relevant jobs whose id
\* is not among the ids previously seen for their own company name, in one
\* entry per company name, each id once.
C1_NewExactlyUnseen ==
    Returned =>
        LET rel == scrape.got.relevant_jobs
            new == scrape.out.new_relevant_jobs
            NewIds(name) == ScrapedIds(rel, name) \ SeenIds(scrape.existing_relevant_jobs, name)
        IN  /\ \A i, j \in 1..Len(new) : new[i].name = new[j].name => i = j
            /\ \A i \in 1..Len(new) :
                 /\ new[i].company.name = new[i].name
                 /\ {new[i].jobs[k].id : k \in 1..Len(new[i].jobs)} = NewIds(new[i].name)
                 /\ Len(new[i].jobs) = Cardinality(NewIds(new[i].name))
                 /\ \A k \in 1..Len(new[i].jobs) :
                        \E m \in 1..Len(rel) : /\ rel[m][1].name = new[i].name
                                               /\ rel[m][2] = new[i].jobs[k]
            /\ \A name \in NamesOf(rel) :
                 NewIds(name) # {} => \E i \in 1..Len(new) : new[i].name = name

\* An id scraped twice for one company, seen before under another company's
\* name only, and reported.
C1_Witness ==
    /\ Returned
    /\ LET rel == scrape.got.relevant_jobs
           new == scrape.out.new_relevant_jobs
       IN  \E m, n \in 1..Len(rel) :
             /\ m < n
             /\ rel[m][1].name = rel[n][1].name
             /\ rel[m][2].id = rel[n][2].id
             /\ \E other \in DOMAIN scrape.existing_relevant_jobs :
                    /\ other # rel[m][1].name
                    /\ rel[m][2].id \in ToSet(scrape.existing_relevant_jobs[other])
             /\ \E i \in 1..Len(new) : /\ new[i].name = rel[m][1].name
                                       /\ Len(new[i].jobs) = 1
                                       /\ new[i].jobs[1].id = rel[m][2].id

\* C8: the returned seen set has, for every company name, the ids previously
\* seen united with the ids of the relevant jobs scraped in this run; no name
\* and no id is dropped.
C8_SeenIsUnion ==
    Returned =>
        LET rel == scrape.got.relevant_jobs
            before == scrape.existing_relevant_jobs
            after == scrape.out.existing_relevant_jobs
        IN  /\ DOMAIN after = DOMAIN before \cup NamesOf(rel)
            /\ \A name \in DOMAIN after :
                 ToSet(after[name]) = SeenIds(before, name) \cup ScrapedIds(rel, name)

\* Ids seen before are kept for a name that is not in the configuration and
\* for a configured company that yields no job in this run, while another
\* company gets a new id.
C8_Witness ==
    /\ Returned
    /\ LET rel == scrape.got.relevant_jobs
           before == scrape.existing_relevant_jobs
           after == scrape.out.existing_relevant_jobs
       IN  /\ Gone \in DOMAIN before /\ Gone \in DOMAIN after
           /\ \E name \in DOMAIN before \ {Gone} :
                  /\ ToSet(before[name]) # {}
                  /\ name \notin NamesOf(rel)
                  /\ ToSet(after[name]) = ToSet(before[name])
                  /\ after[name] # before[name]
           /\ \E name \in NamesOf(rel) : name \notin DOMAIN before

\* Occurrence of a phrase in a page text, ignoring case.
TextHas(text, phrase) ==
    \E k \in 0..(Len(text) - Len(phrase)) :
        \A j \in 1..Len(phrase) : LowerChar(text[k + j]) = LowerChar(phrase[j])

GenericFound(text) ==
    \E g \in 1..Len(generic_no_jobs_phrases) : TextHas(text, generic_no_jobs_phrases[g])

\* has-jobs detection on a readable page: the company's own phrase decides if
\* it has one, the generic phrases otherwise.
ExpectHasJobs(company, text) ==
    IF Len(company.no_jobs_phrase) > 0
    THEN ~TextHas(text, company.no_jobs_phrase)
    ELSE ~GenericFound(text)

Errored(company) ==
    \E m \in 1..Len(scrape.got.errors) : scrape.got.errors[m][1] = company.name

Collected(company) ==
    \E m \in 1..Len(scrape.got.relevant_jobs) : scrape.got.relevant_jobs[m][1] = company

InVerifyNoJobs(company) ==
    \E m \in 1..Len(scrape.got.verify_no_jobs) : scrape.got.verify_no_jobs[m] = company

\* C7: a company is listed in verify_no_jobs exactly when it was checked
\* without error, no relevant job was collected for it, and either a generic
\* phrase was found with no phrase of its own configured, or has-jobs
\* detection was true and the scraper returned no job; and on a page where
\* has-jobs detection is false the scraper is not run (its failure is no
\* error, its postings are not collected).
C7_VerifyNoJobs ==
    Returned =>
        \A k \in 1..Len(scrape.config.companies) :
            LET company == scrape.config.companies[k]
                page == PageOf(scrape.web, k)
                checked == MatchesLimit(scrape.limit_company, company) /\ company.active
                has == ExpectHasJobs(company, page.text)
            IN  /\ InVerifyNoJobs(company) <=>
                     /\ checked
                     /\ ~Errored(company)
                     /\ ~Collected(company)
                     /\ \/ GenericFound(page.text) /\ Len(company.no_jobs_phrase) = 0
                        \/ has /\ Len(page.jobs) = 0
                /\ (checked /\ page.text # <<>> /\ ~has) =>
                     ~Errored(company) /\ ~Collected(company)

\* One company listed because its scraper found nothing on a page without its
\* own phrase (though with a generic one), another not listed because
\* postings were extracted, none of them relevant.
C7_Witness ==
    /\ Returned
    /\ \E k \in DOMAIN scrape.web :
          LET company == scrape.config.companies[k] IN
          /\ Len(company.no_jobs_phrase) > 0
          /\ GenericFound(scrape.web[k].text)
          /\ InVerifyNoJobs(company)
    /\ \E k \in DOMAIN scrape.web :
          LET company == scrape.config.companies[k] IN
          /\ ExpectHasJobs(company, scrape.web[k].text)
          /\ Len(scrape.web[k].jobs) > 0
          /\ ~Collected(company)
          /\ ~Errored(company)
          /\ ~InVerifyNoJobs(company)

\* C9: get_relevant_jobs returns, with every active company that matches
\* limit_company in exactly one outcome (jobs collected, listed in
\* verify_no_jobs, recorded in errors, or nothing to report) and every
\* matching inactive company in skipped_companies with no outcome of a check.
C9_EveryCompanyChecked ==
    scrape.called =>
        /\ scrape.got.raised = NoException
        /\ \A k \in 1..Len(scrape.config.companies) :
              LET company == scrape.config.companies[k]
                  skipped == \E m \in 1..Len(scrape.got.skipped_companies) :
                                 scrape.got.skipped_companies[m] = company.name
                  outcomes == {o \in {"collected", "verify", "error"} :
                                  \/ o = "collected" /\ Collected(company)
                                  \/ o = "verify" /\ InVerifyNoJobs(company)
                                  \/ o = "error" /\ Errored(company)}
              IN  IF ~MatchesLimit(scrape.limit_company, company)
                  THEN outcomes = {} /\ ~skipped
                  ELSE IF company.active
                  THEN Cardinality(outcomes) <= 1 /\ ~skipped
                  ELSE outcomes = {} /\ skipped

(***************************************************************************)
(* Runs: lambda_function.py lambda_handler and the jobscrape.py command    *)
(* line, each run a fresh process against the stored object/file the       *)
(* previous run left.  Timestamp-suffixed objects and files are never read *)
(* back; they appear in `puts` as written by the latest run.               *)
(***************************************************************************)
EmptyJson == [key \in {} |-> <<>>]

\* event / args: the optional keys of the lambda event, the command line flags
Events ==
    [limit_company : Limits, additional_search_term : AdditionalTerms,
     dont_replace_existing : BOOLEAN, dont_write_existing : BOOLEAN]

\* What get_relevant_jobs can return on the pages of one run.
Outcomes == [cfg \in Configs |-> [limit_company \in Limits |-> [term \in AdditionalTerms |->
                {get_relevant_jobs(cfg, web, limit_company, term) :
                    web \in Webs(cfg, limit_company)}]]]

\* format_new_jobs_message: per company name its jobs page and one line per
\* job; the line is rendered from the job's title and link, and is kept here
\* as the job it renders.
format_new_jobs_message(new_jobs) ==
    [k \in 1..Len(new_jobs) |->
        [company_name |-> new_jobs[k].name,
         jobs_page |-> new_jobs[k].company.jobs_page,
         lines |-> new_jobs[k].jobs]]

\* new_existing_errors: one {"company_name", "message"} per entry of errors
NewExistingErrors(errors) ==
    [k \in 1..Len(errors) |-> [company_name |-> errors[k][1], message |-> errors[k][2]]]

\* existing_errors_company_names
ErrorNames(existing_errors) ==
    {existing_errors[k].company_name : k \in 1..Len(existing_errors)}

\* Faulty variant: every error counts as new.
HasNewErrorsAlways(errors, existing_errors_company_names) == Len(errors) > 0

\* has_new_errors after the loop over errors
HasNewErrors(errors, existing_errors_company_names) ==
    \E k \in 1..Len(errors) : errors[k][1] \notin existing_errors_company_names

\* Faulty variant: dont_replace_existing is ignored.
ExistingJobsWritesInPlace(event, out) ==
    IF Len(out.new_relevant_jobs) > 0 /\ ~event.dont_write_existing
    THEN <<[Key |-> "existing_jobs_json", Body |-> out.existing_relevant_jobs]>>
    ELSE <<>>

\* The put calls / file writes of the existing-jobs section: nothing without
\* new jobs or with dont_write_existing, else the updated set under the
\* original name, or under the timestamp-suffixed one with dont_replace_existing.
ExistingJobsWrites(event, out) ==
    IF Len(out.new_relevant_jobs) > 0 /\ ~event.dont_write_existing
    THEN <<[Key |-> IF event.dont_replace_existing
                    THEN "existing_jobs_json + timestamp" ELSE "existing_jobs_json",
            Body |-> out.existing_relevant_jobs]>>
    ELSE <<>>

\* The publish call of the new-jobs section.
NewJobsPublished(out) ==
    IF Len(out.new_relevant_jobs) > 0
    THEN <<[Subject |-> "New jobs",
            Message |-> format_new_jobs_message(out.new_relevant_jobs)]>>
    ELSE <<>>

\* The publish call of the errors section.
ErrorsPublished(errors, existing_errors) ==
    IF Len(errors) > 0 /\ HasNewErrors(errors, ErrorNames(existing_errors))
    THEN <<[Subject |-> "New scrape errors", Message |-> errors]>>
    ELSE <<>>

\* Faulty variant: the stored list is not reset by a run without errors.
ErrorsPutsNoReset(errors, existing_errors) ==
    IF Len(errors) > 0
    THEN <<[Key |-> "errors_json", Body |-> NewExistingErrors(errors)]>>
    ELSE <<>>

\* The put calls of the errors section.
ErrorsPuts(errors, existing_errors) ==
    IF Len(errors) > 0
    THEN <<[Key |-> "errors_json", Body |-> NewExistingErrors(errors)]>>
    ELSE IF ErrorNames(existing_errors) # {}
    THEN <<[Key |-> "errors_json", Body |-> <<>>]>>
    ELSE <<>>

\* The stored content under Key after the writes (the last write wins).
RECURSIVE After(_, _, _)
After(content, writes, Key) ==
    IF writes = <<>>
    THEN content
    ELSE After(IF Head(writes).Key = Key THEN Head(writes).Body ELSE content,
               Tail(writes), Key)

\* The (company name, id) pairs of a list of (company, job).
PairsOf(relevant_jobs) ==
    {<<relevant_jobs[k][1].name, relevant_jobs[k][2].id>> : k \in 1..Len(relevant_jobs)}

\* The (company name, id) pairs of a stored existing-jobs json.
PairsIn(existing) ==
    UNION {{<<key, id>> : id \in ToSet(existing[key])} : key \in DOMAIN existing}

NoRun ==
    [status |-> "none", dont_replace_existing |-> FALSE, dont_write_existing |-> FALSE,
     scraped |-> {}, errors |-> <<>>]

\* What a run leaves in `last`, `seen` and `persisted`.  The history of what
\* was scraped is kept as long as every run persisted its result.
Observe(event, got) ==
    LET still == persisted /\ (got.raised # NoException
                               \/ (~event.dont_replace_existing
                                   /\ ~event.dont_write_existing))
    IN  /\ last' = [status |-> IF got.raised = NoException THEN "done" ELSE "raised",
                    dont_replace_existing |-> event.dont_replace_existing,
                    dont_write_existing |-> event.dont_write_existing,
                    scraped |-> IF still THEN PairsOf(got.relevant_jobs) ELSE {},
                    errors |-> got.errors]
        /\ seen' = IF still THEN seen \cup last.scraped ELSE {}
        /\ persisted' = still

\* lambda_handler(event, context); got is what get_relevant_jobs returns on
\* the pages of this run.  An exception leaving get_new_relevant_jobs ends
\* the run before any put or publish.
LambdaHandler(event, got) ==
    \E out \in {get_new_relevant_jobs(existing_jobs_object, got)} :
    \E writes \in {ExistingJobsWrites(event, out) \o ErrorsPuts(out.errors, errors_object)} :
        /\ entry = "lambda"
        /\ Observe(event, got)
        /\ UNCHANGED <<title_call, scrape, config, entry, existing_jobs_file, printed>>
        /\ IF out.raised # NoException
           THEN /\ sns' = <<>>
                /\ puts' = <<>>
                /\ UNCHANGED <<existing_jobs_object, errors_object>>
           ELSE /\ puts' = writes
                /\ existing_jobs_object' = After(existing_jobs_object, writes, "existing_jobs_json")
                /\ errors_object' = After(errors_object, writes, "errors_json")
                /\ sns' = NewJobsPublished(out) \o ErrorsPublished(out.errors, errors_object)

\* What the script prints after get_new_relevant_jobs returned.
Printed(args, out) ==
    (IF Len(out.verify_no_jobs) > 0
     THEN <<[what |-> "No jobs at all, but no specific no jobs phrase",
             text |-> [k \in 1..Len(out.verify_no_jobs) |-> out.verify_no_jobs[k].name]]>>
     ELSE <<>>)
    \o (IF Len(out.new_relevant_jobs) > 0
        THEN <<[what |-> "New jobs", text |-> format_new_jobs_message(out.new_relevant_jobs)]>>
        ELSE <<>>)
    \o (IF Len(out.errors) > 0
        THEN <<[what |-> "Errors", text |-> out.errors]>>
        ELSE <<>>)
    \o (IF Len(out.new_relevant_jobs) = 0
        THEN <<[what |-> "No new jobs", text |-> <<>>]>>
        ELSE <<>>)

\* jobscrape.py run as a script
Main(args, got) ==
    \E out \in {get_new_relevant_jobs(existing_jobs_file, got)} :
    \E writes \in {ExistingJobsWrites(args, out)} :
        /\ entry = "cli"
        /\ Observe(args, got)
        /\ UNCHANGED <<title_call, scrape, config, entry, existing_jobs_object,
                       errors_object, sns>>
        /\ IF out.raised # NoException
           THEN /\ printed' = <<>>
                /\ puts' = <<>>
                /\ UNCHANGED existing_jobs_file
           ELSE /\ printed' = Printed(args, out)
                /\ puts' = writes
                /\ existing_jobs_file' = After(existing_jobs_file, writes, "existing_jobs_json")

\* A run on any of the pages of the table.
LambdaRun(table, events) ==
    \E event \in events :
        \E got \in table[config][event.limit_company][event.additional_search_term] :
            LambdaHandler(event, got)

CliRun(table, events) ==
    \E args \in events :
        \E got \in table[config][args.limit_company][args.additional_search_term] :
            Main(args, got)

Unused == title_call = <<>> /\ scrape = <<>>

(***************************************************************************)
(* Sequences of lambda_handler runs of a fresh deployment (stored json {}  *)
(* and []).  The pages of a run are unreadable, or plain pages with at     *)
(* most MaxRunJobs postings in all.                                        *)
(***************************************************************************)
RunPages ==
    {[text |-> <<>>, jobs |-> <<>>, raises |-> FALSE]}
    \cup {[text |-> TextJobs, jobs |-> l, raises |-> FALSE] : l \in JobLists}

RunWebs(cfg, limit_company) ==
    {web \in [Fetched(cfg, limit_company) -> RunPages] :
        TotalJobs(web, DOMAIN web) <= MaxRunJobs}

RunOutcomes == [cfg \in Configs |-> [limit_company \in Limits |-> [term \in AdditionalTerms |->
                   {get_relevant_jobs(cfg, web, limit_company, term) :
                       web \in RunWebs(cfg, limit_company)}]]]

\* The events of the runs of a sequence: no temp_term.
RunEvents == {event \in Events : event.additional_search_term = None}

Init ==
    /\ config \in Configs
    /\ entry = "lambda"
    /\ existing_jobs_object = EmptyJson
    /\ errors_object = <<>>
    /\ existing_jobs_file = EmptyJson
    /\ puts = <<>>
    /\ sns = <<>>
    /\ printed = <<>>
    /\ last = NoRun
    /\ seen = {}
    /\ persisted = TRUE
    /\ Unused

Next == LambdaRun(RunOutcomes, RunEvents)

Spec == Init /\ [][Next]_vars

(***************************************************************************)
(* One run of a deployment in any stored state, on any pages.              *)
(***************************************************************************)
StoredErrors ==
    { <<>>,
      <<[company_name |-> Acme.name, message |-> ScraperFailure]>>,
      <<[company_name |-> Bolt.name, message |-> RetrievingTextError(Bolt.name)]>>,
      <<[company_name |-> Acme.name, message |-> RetrievingTextError(Acme.name)],
        [company_name |-> Gone, message |-> NotImplementedError]>> }

OnceInit ==
    /\ config \in Configs
    /\ entry \in {"cli", "lambda"}
    /\ existing_jobs_object \in (IF entry = "lambda" THEN ExistingFiles ELSE {EmptyJson})
    /\ errors_object \in (IF entry = "lambda" THEN StoredErrors ELSE {<<>>})
    /\ existing_jobs_file \in (IF entry = "cli" THEN ExistingFiles ELSE {EmptyJson})
    /\ puts = <<>>
    /\ sns = <<>>
    /\ printed = <<>>
    /\ last = NoRun
    /\ seen = PairsIn(IF entry = "lambda" THEN existing_jobs_object ELSE existing_jobs_file)
    /\ persisted = TRUE
    /\ Unused

OnceNext ==
    \/ last.status = "none" /\ LambdaRun(Outcomes, Events)
    \/ last.status = "none" /\ CliRun(Outcomes, Events)

SpecOnce == OnceInit /\ [][OnceNext]_vars

(***************************************************************************)
(* Properties of one run (SpecOnce).                                       *)
(***************************************************************************)
\* The original existing-jobs json: the S3 object of lambda_handler, the file
\* of the script.
Original == IF entry = "lambda" THEN existing_jobs_object ELSE existing_jobs_file

WritesTo(writes, Key) == {k \in 1..Len(writes) : writes[k].Key = Key}

\* The (company name, id) pairs of a 'New jobs' message.
NotifiedPairs(message) ==
    UNION {{<<message[k].company_name, message[k].lines[j].id>> :
                j \in 1..Len(message[k].lines)} : k \in 1..Len(message)}

\* C4: a completed run leaves the original existing-jobs json as it was when
\* dont_write_existing is set, when dont_replace_existing is set (the updated
\* seen set is then written under the timestamp-suffixed name) and when no
\* job is new; it writes the original, with the updated seen set, only when
\* a job is new and neither flag is set.  The new jobs of a run are those of
\* the 'New jobs' message it publishes (lambda_handler) or prints (script).
C4_OriginalKept ==
    [][ last'.status = "done" =>
          LET new == IF entry = "lambda"
                     THEN UNION {NotifiedPairs(sns'[k].Message) :
                                    k \in {j \in 1..Len(sns') : sns'[j].Subject = "New jobs"}}
                     ELSE UNION {NotifiedPairs(printed'[k].text) :
                                    k \in {j \in 1..Len(printed') : printed'[j].what = "New jobs"}}
              updated == PairsIn(Original) \cup new
              dont_write == last'.dont_write_existing
              dont_replace == last'.dont_replace_existing
              replaces == new # {} /\ ~dont_write /\ ~dont_replace
          IN  /\ ~replaces => /\ Original' = Original
                              /\ WritesTo(puts', "existing_jobs_json") = {}
              /\ replaces => /\ PairsIn(Original') = updated
                             /\ WritesTo(puts', "existing_jobs_json") # {}
                             /\ WritesTo(puts', "existing_jobs_json + timestamp") = {}
              /\ (new # {} /\ dont_replace /\ ~dont_write) =>
                    \E k \in WritesTo(puts', "existing_jobs_json + timestamp") :
                        PairsIn(puts'[k].Body) = updated
              /\ (new = {} \/ dont_write) =>
                    WritesTo(puts', "existing_jobs_json + timestamp") = {}
      ]_vars

\* A run with dont_replace_existing that found a new job: the updated set is
\* under the timestamp-suffixed name, the original holds what it held.
C4_Witness ==
    /\ last.status = "done"
    /\ last.dont_replace_existing /\ ~last.dont_write_existing
    /\ Original \in ExistingFiles \ {EmptyJson}
    /\ \E k \in WritesTo(puts, "existing_jobs_json + timestamp") :
           /\ PairsIn(Original) \subseteq PairsIn(puts[k].Body)
           /\ PairsIn(puts[k].Body) # PairsIn(Original)

(***************************************************************************)
(* Properties of sequences of lambda_handler runs (Spec).                  *)
(***************************************************************************)
Published(Subject) == {k \in 1..Len(sns) : sns[k].Subject = Subject}

\* C2: while every run so far had both flags false, a completed run publishes
\* one 'New jobs' message if some job it scraped as relevant was scraped in no
\* earlier run, and none otherwise, and the message lists exactly those jobs:
\* each job is notified in the first run that scrapes it and in no later one.
C2_NotifiedOnce ==
    (persisted /\ last.status = "done") =>
        LET first == last.scraped \ seen IN
        /\ Cardinality(Published("New jobs")) = (IF first = {} THEN 0 ELSE 1)
        /\ \A k \in Published("New jobs") :
              /\ NotifiedPairs(sns[k].Message) = first
              /\ \A i \in 1..Len(sns[k].Message) :
                    Len(sns[k].Message[i].lines) =
                        Cardinality({pair \in first : pair[1] = sns[k].Message[i].company_name})

\* A later run that scrapes only jobs already notified, among them an id that
\* was notified for two companies: no message.
C2_Witness ==
    /\ persisted /\ last.status = "done"
    /\ last.scraped # {}
    /\ last.scraped \subseteq seen
    /\ \E p, q \in seen : p[1] # q[1] /\ p[2] = q[2]
    /\ Published("New jobs") = {}

\* C3: a completed run publishes 'New scrape errors' exactly when a company
\* with an error in this run is not in the error list the run found stored.
C3_NewErrorsOnly ==
    [][ last'.status = "done" =>
          LET stored == {errors_object[k].company_name : k \in 1..Len(errors_object)}
              fresh == {k \in 1..Len(last'.errors) : last'.errors[k][1] \notin stored}
              published == {k \in 1..Len(sns') : sns'[k].Subject = "New scrape errors"}
          IN  /\ Cardinality(published) = (IF fresh = {} THEN 0 ELSE 1)
              /\ \A k \in published : sns'[k].Message = last'.errors
      ]_vars

\* A run with errors and no 'New scrape errors' message: the error persists.
C3_Witness ==
    /\ last.status = "done"
    /\ Len(last.errors) > 0
    /\ Published("New scrape errors") = {}

\* C6: after a completed run the stored error list has exactly one entry,
\* company name and message, per error of that run, in order; it is empty
\* after a run without errors, whatever was stored before.
C6_StoredErrorsAreThisRuns ==
    last.status = "done" =>
        /\ Len(errors_object) = Len(last.errors)
        /\ \A k \in 1..Len(last.errors) :
              /\ errors_object[k].company_name = last.errors[k][1]
              /\ errors_object[k].message = last.errors[k][2]

\* A run without errors that reset a non-empty stored list.
C6_Witness ==
    /\ last.status = "done"
    /\ last.errors = <<>>
    /\ \E k \in WritesTo(puts, "errors_json") : puts[k].Body = <<>>
    /\ errors_object = <<>>

(***************************************************************************)
(* The one-call specifications.                                            *)
(***************************************************************************)
NoDeployment ==
    /\ config = Config1 /\ entry = "none"
    /\ existing_jobs_object = EmptyJson /\ errors_object = <<>>
    /\ existing_jobs_file = EmptyJson
    /\ puts = <<>> /\ sns = <<>> /\ printed = <<>>
    /\ last = NoRun /\ seen = {} /\ persisted = TRUE

DeploymentVars == <<config, entry, existing_jobs_object, errors_object,
                    existing_jobs_file, puts, sns, printed, last, seen, persisted>>

TitleInit == InitTitle /\ scrape = <<>> /\ NoDeployment

NextTitle == CallTitleIsRelevant /\ UNCHANGED <<scrape, DeploymentVars>>

SpecTitle == TitleInit /\ [][NextTitle]_vars

ScrapeInit == InitScrape /\ title_call = <<>> /\ NoDeployment

NextScrape == CallGetNewRelevantJobs /\ UNCHANGED <<title_call, DeploymentVars>>

SpecScrape == ScrapeInit /\ [][NextScrape]_vars

====
